---- MODULE Spec2Model ----
(***************************************************************************)
(* Constraint and key-selection subsystem of the SDMX 2.1 information      *)
(* model (sdmx/model/v21.py): Constraint, ContentConstraint and the key    *)
(* iteration they delegate to.                                             *)
(*                                                                         *)
(* sdmx.model.common (CubeRegion, MemberSelection, DataKeySet and          *)
(* BaseDataStructureDefinition.iter_keys) is not part of the source tree;  *)
(* those operators follow spec.md sections 3 and 4.                        *)
(***************************************************************************)
EXTENDS Naturals, Sequences, FiniteSets, TLC

VARIABLES
    obj,           \* the Constraint / ContentConstraint object
    pre,           \* the same object as it was constructed
    call,          \* the most recent call: operation and arguments
    ret,           \* its outcome: value returned or exception raised
    log,           \* the warnings it sent to the module logger
    default_dims,  \* the list object bound to iter_keys' default `dims=[]`
    gens           \* the iter_keys generators alive, by generator id

vars == <<obj, pre, call, ret, log, default_dims, gens>>

(***************************************************************************)
(* Bounds                                                                  *)
(***************************************************************************)
\* longest data_content_region list
MaxRegions == 2
\* most DataKeys in a DataKeySet
MaxKeys == 1

(***************************************************************************)
(* The structure: spec.md section 8 uses dimensions {A:[a1,a2],            *)
(* B:[b1,b2]}, both coded.                                                 *)
(***************************************************************************)
Dims == <<"A", "B">>

Domain == [A |-> <<"a1", "a2">>, B |-> <<"b1", "b2">>]

Range(s) == {s[i] : i \in DOMAIN s}

DimIds == Range(Dims)

\* Every fully specified key of the structure.
Keys == {k \in [DimIds -> UNION {Range(Domain[d]) : d \in DimIds}] :
            \A d \in DimIds : k[d] \in Range(Domain[d])}

\* Optional[...] fields hold <<>> for None and <<x>> for a value x.
None == <<>>

Some(x) == <<x>>

(***************************************************************************)
(* Selections, regions and key sets (sdmx.model.common, from spec.md).     *)
(***************************************************************************)
\* MemberSelection: {values, included}, values non-empty.
MemberSelections(d) ==
    [values : SUBSET Range(Domain[d]) \ {{}}, included : BOOLEAN]

\* 4.1: equal to a listed value under include polarity, to none under exclude.
MemberSelection_contains(ms, v) == (v \in ms.values) = ms.included

\* CubeRegion: at most one MemberSelection per dimension id.
CubeRegions ==
    UNION {{[member |-> m] :
              m \in {f \in [S -> UNION {MemberSelections(d) : d \in S}] :
                        \A d \in S : f[d] \in MemberSelections(d)}} :
           S \in SUBSET DimIds}

\* Regions that select on at most one dimension.
NarrowRegions == {cr \in CubeRegions : Cardinality(DOMAIN cr.member) <= 1}

\* 4.2: every selected dimension's value satisfies its MemberSelection.
CubeRegion_contains(cr, key) ==
    \A d \in DOMAIN cr.member : MemberSelection_contains(cr.member[d], key[d])

\* 4.3: the filter expression of one region: per dimension of the structure, in
\* order, the codes of the domain the region keeps; empty when it does not select.
CubeRegion_to_query_string(cr, structure) ==
    [i \in DOMAIN structure |->
        IF structure[i] \in DOMAIN cr.member
        THEN LET Kept(v) == MemberSelection_contains(cr.member[structure[i]], v)
             IN  SelectSeq(Domain[structure[i]], Kept)
        ELSE <<>>]

\* DataKey: a fully specified point; DataKeySet: {keys, included}.
DataKeySets ==
    [keys : {ks \in SUBSET {[values |-> k] : k \in Keys} : Cardinality(ks) <= MaxKeys},
     included : BOOLEAN]

\* 4.3: any(dk.values == key for dk in keys) == included
DataKeySet_contains(dks, key) ==
    (\E dk \in dks.keys : dk.values = key) = dks.included

(***************************************************************************)
(* Outcomes of a call.                                                     *)
(***************************************************************************)
Return(v, l, self) == [kind |-> "return", value |-> v, log |-> l, self |-> self]

Raise(e, l, self) == [kind |-> "raise", value |-> e, log |-> l, self |-> self]

(***************************************************************************)
(* Constraint (v21.py 106-123)                                             *)
(***************************************************************************)
Constraint_contains(self, value) ==
    IF self.data_content_keys = None
    THEN Raise("NotImplementedError", <<>>, self)
    ELSE Return(DataKeySet_contains(self.data_content_keys[1], value), <<>>, self)

(***************************************************************************)
(* ContentConstraint (v21.py 130-172)                                      *)
(***************************************************************************)
\* Drops the emptiness test: all() over no regions is True.
ContentConstraint_contains_NoGuard(self, value) ==
    Return(\A i \in DOMAIN self.data_content_region :
               CubeRegion_contains(self.data_content_region[i], value),
           <<>>, self)

\* Looks at the first region only.
ContentConstraint_contains_First(self, value) ==
    IF self.data_content_region # <<>>
    THEN Return(CubeRegion_contains(self.data_content_region[1], value), <<>>, self)
    ELSE Raise("NotImplementedError", <<>>, self)

ContentConstraint_contains(self, value) ==
    IF self.data_content_region # <<>>
    THEN Return(\A i \in DOMAIN self.data_content_region :
                    CubeRegion_contains(self.data_content_region[i], value),
                <<>>, self)
    ELSE Raise("NotImplementedError", <<>>, self)

\* `value in constraint` dispatches on the object's class.
Contains(self, value) ==
    IF self.cls = "ContentConstraint"
    THEN ContentConstraint_contains(self, value)
    ELSE Constraint_contains(self, value)

\* log.warning(f"to_query_string() using first of {cr_count} CubeRegions")
MultiRegionWarning == <<"to_query_string() using first of CubeRegions">>

\* Renders the last region instead of the first.
ContentConstraint_to_query_string_Last(self, structure) ==
    LET cr_count == Len(self.data_content_region)
        warned == IF cr_count > 1 THEN MultiRegionWarning ELSE <<>>
    IN  IF cr_count = 0
        THEN Raise("RuntimeError", warned, self)
        ELSE Return(CubeRegion_to_query_string(self.data_content_region[cr_count],
                                               structure),
                    warned, self)

\* No try/except: the IndexError of [0] escapes.
ContentConstraint_to_query_string_NoExcept(self, structure) ==
    LET cr_count == Len(self.data_content_region)
        warned == IF cr_count > 1 THEN MultiRegionWarning ELSE <<>>
    IN  IF cr_count = 0
        THEN Raise("IndexError", warned, self)
        ELSE Return(CubeRegion_to_query_string(self.data_content_region[1], structure),
                    warned, self)

\* Never warns.
ContentConstraint_to_query_string_Silent(self, structure) ==
    LET cr_count == Len(self.data_content_region)
    IN  IF cr_count = 0
        THEN Raise("RuntimeError", <<>>, self)
        ELSE Return(CubeRegion_to_query_string(self.data_content_region[1], structure),
                    <<>>, self)

ContentConstraint_to_query_string(self, structure) ==
    LET cr_count == Len(self.data_content_region)
        warned == IF cr_count > 1 THEN MultiRegionWarning ELSE <<>>
    IN  IF cr_count = 0
        THEN \* data_content_region[0] raises IndexError, re-raised as RuntimeError
             Raise("RuntimeError", warned, self)
        ELSE Return(CubeRegion_to_query_string(self.data_content_region[1], structure),
                    warned, self)

(***************************************************************************)
(* Key iteration of the structure (common.BaseDataStructureDefinition,     *)
(* from spec.md 4.3 steps 1, 3, 4 and 4.4).                                *)
(***************************************************************************)
\* The artefacts a constraint's content may name: the data structure definition
\* whose keys are iterated, and a dataflow.
Artefacts == {"DSD", "DF"}

RECURSIVE Flatten(_)
Flatten(ss) == IF ss = <<>> THEN <<>> ELSE Head(ss) \o Flatten(Tail(ss))

\* Step 3: the coded domain of d, narrowed by the MemberSelection for d in the
\* first region of the constraint when there is one.
Candidates(constraint, d) ==
    LET Kept(v) ==
            \/ constraint = None
            \/ constraint[1].data_content_region = <<>>
            \/ d \notin DOMAIN constraint[1].data_content_region[1].member
            \/ MemberSelection_contains(
                   constraint[1].data_content_region[1].member[d], v)
    IN  SelectSeq(Domain[d], Kept)

RECURSIVE Product(_, _)
\* Step 4: the Cartesian product over the dimension list dl, first dimension
\* varying slowest.
Product(constraint, dl) ==
    IF dl = <<>> THEN << <<>> >>
    ELSE LET d == Head(dl)
             cand == Candidates(constraint, d)
             rest == Product(constraint, Tail(dl))
         IN  Flatten([i \in DOMAIN cand |->
                        [j \in DOMAIN rest |-> (d :> cand[i]) @@ rest[j]]])

RECURSIVE Reverse(_)
Reverse(s) == IF s = <<>> THEN <<>> ELSE Append(Reverse(Tail(s)), Head(s))

\* Nests the loops the other way round: the first dimension varies fastest.
DataStructureDefinition_iter_keys_Minor(constraint, dims) ==
    Reverse(Product(constraint, Reverse(IF dims = <<>> THEN Dims ELSE dims)))

\* Step 1: the dimension list is dims when given, the structure's otherwise.
DataStructureDefinition_iter_keys(constraint, dims) ==
    Product(constraint, IF dims = <<>> THEN Dims ELSE dims)

NotInContentWarning == <<"obj is not in content">>

\* Delegates without the constraint.
ContentConstraint_iter_keys_Unconstrained(self, obj_, dims) ==
    [kind |-> "return",
     value |-> DataStructureDefinition_iter_keys(None, dims),
     log |-> IF obj_ \notin self.content THEN NotInContentWarning ELSE <<>>,
     self |-> self, dims |-> dims]

\* Treats an artefact outside content as an error.
ContentConstraint_iter_keys_Strict(self, obj_, dims) ==
    IF obj_ \notin self.content
    THEN [kind |-> "raise", value |-> "ValueError", log |-> <<>>,
          self |-> self, dims |-> dims]
    ELSE [kind |-> "return",
          value |-> DataStructureDefinition_iter_keys(Some(self), dims),
          log |-> <<>>, self |-> self, dims |-> dims]

\* Records the artefact in content after warning about it.
ContentConstraint_iter_keys_Associates(self, obj_, dims) ==
    [kind |-> "return",
     value |-> DataStructureDefinition_iter_keys(Some(self), dims),
     log |-> IF obj_ \notin self.content THEN NotInContentWarning ELSE <<>>,
     self |-> [self EXCEPT !.content = @ \cup {obj_}], dims |-> dims]

\* v21.py 155-172. `dims` in the outcome is the list object passed in, as the
\* body leaves it.
ContentConstraint_iter_keys(self, obj_, dims) ==
    [kind |-> "return",
     value |-> DataStructureDefinition_iter_keys(Some(self), dims),
     log |-> IF obj_ \notin self.content THEN NotInContentWarning ELSE <<>>,
     self |-> self, dims |-> dims]

(***************************************************************************)
(* Objects                                                                 *)
(***************************************************************************)
RECURSIVE SeqsUpTo(_, _)
\* Sequences over S of length at most n.
SeqsUpTo(S, n) ==
    IF n = 0 THEN {<<>>}
    ELSE LET shorter == SeqsUpTo(S, n - 1)
         IN  shorter \cup {Append(s, x) : s \in {t \in shorter : Len(t) = n - 1}, x \in S}

Roles == {"allowable"}

OptionalKeySets == {None} \cup {Some(dks) : dks \in DataKeySets}

\* Plain Constraint objects carry no regions and no content.
Constraints ==
    [cls : {"Constraint"}, role : Roles, data_content_keys : OptionalKeySets,
     data_content_region : {<<>>}, content : {{}}]

ContentConstraints(keySets, regionLists, contents) ==
    [cls : {"ContentConstraint"}, role : Roles, data_content_keys : keySets,
     data_content_region : regionLists, content : contents]

NoCall == [op |-> "none"]

NoRet == [kind |-> "none"]

(***************************************************************************)
(* Spec: membership and query-string calls on one constraint object.       *)
(***************************************************************************)
Init ==
    /\ obj \in Constraints
               \cup ContentConstraints(OptionalKeySets, SeqsUpTo(NarrowRegions, MaxRegions), {{}})
    /\ pre = obj
    /\ call = NoCall
    /\ ret = NoRet
    /\ log = <<>>
    /\ default_dims = <<>>
    /\ gens = <<>>

\* key in obj
DoContains ==
    \E key \in Keys :
        LET out == Contains(obj, key)
        IN  /\ call' = [op |-> "contains", key |-> key]
            /\ ret' = [kind |-> out.kind, value |-> out.value]
            /\ log' = out.log
            /\ obj' = out.self
            /\ UNCHANGED <<pre, default_dims, gens>>

\* obj.to_query_string(structure)
DoToQueryString ==
    /\ obj.cls = "ContentConstraint"
    /\ LET out == ContentConstraint_to_query_string(obj, Dims)
       IN  /\ call' = [op |-> "to_query_string"]
           /\ ret' = [kind |-> out.kind, value |-> out.value]
           /\ log' = out.log
           /\ obj' = out.self
           /\ UNCHANGED <<pre, default_dims, gens>>

Next == DoContains \/ DoToQueryString

Spec == Init /\ [][Next]_vars

(***************************************************************************)
(* SpecIter: whole iter_keys calls, run to exhaustion.                     *)
(***************************************************************************)
\* The dims arguments: the default, or dimension ids of the structure.
DimsArgs == {s \in SeqsUpTo(DimIds, Len(Dims)) : \A i, j \in DOMAIN s : s[i] = s[j] => i = j}

\* Regions that keep exactly one value of one dimension.
PointRegions ==
    {cr \in NarrowRegions :
        \A d \in DOMAIN cr.member :
            cr.member[d].included /\ Cardinality(cr.member[d].values) = 1}

\* Any first region, followed by regions of PointRegions.
IterRegionLists ==
    {<<>>} \cup {<<h>> \o t : h \in CubeRegions, t \in SeqsUpTo(PointRegions, MaxRegions - 1)}

InitIter ==
    /\ obj \in ContentConstraints({None}, IterRegionLists, SUBSET Artefacts)
    /\ pre = obj
    /\ call = NoCall
    /\ ret = NoRet
    /\ log = <<>>
    /\ default_dims = <<>>
    /\ gens = <<>>

\* list(obj.iter_keys(a, dims)); the default dims when dims is not passed
DoIterKeys ==
    \E a \in {"DSD"}, dims \in DimsArgs, passed \in BOOLEAN :
        /\ ~passed => dims = <<>>
        /\ LET out == ContentConstraint_iter_keys(
                          obj, a, IF passed THEN dims ELSE default_dims)
           IN  /\ call' = [op |-> "iter_keys", obj |-> a, dims |-> dims, passed |-> passed]
               /\ ret' = [kind |-> out.kind, value |-> out.value]
               /\ log' = out.log
               /\ obj' = out.self
               /\ default_dims' = IF passed THEN default_dims ELSE out.dims
               /\ UNCHANGED <<pre, gens>>

\* list(structure.iter_keys(dims=dims)): no constraint
DoStructureIterKeys ==
    \E dims \in DimsArgs :
        /\ call' = [op |-> "structure_iter_keys", dims |-> dims]
        /\ ret' = [kind |-> "return",
                   value |-> DataStructureDefinition_iter_keys(None, dims)]
        /\ log' = <<>>
        /\ UNCHANGED <<obj, pre, default_dims, gens>>

NextIter == DoIterKeys \/ DoStructureIterKeys

SpecIter == InitIter /\ [][NextIter]_vars

(***************************************************************************)
(* SpecGen: two iter_keys generators over the same structure and           *)
(* constraint, resumed in any order.                                       *)
(***************************************************************************)
GenIds == {"g1", "g2"}

Idle == [pc |-> "idle"]

GenRegionLists == {<<>>} \cup {<<r>> : r \in NarrowRegions}

\* dims arguments the generators pass explicitly
GenDimsArgs == {<<"B">>, <<"A", "B">>}

InitGen ==
    /\ obj \in ContentConstraints({None}, GenRegionLists, SUBSET {"DSD"})
    /\ pre = obj
    /\ call = NoCall
    /\ ret = NoRet
    /\ log = <<>>
    /\ default_dims = <<>>
    /\ gens = [g \in GenIds |-> Idle]

\* The list object a generator's `dims` parameter is bound to.
BoundDims(gen) == IF gen.passed THEN gen.dims ELSE default_dims

\* g = obj.iter_keys("DSD"[, dims]): binds the arguments, runs none of the body
GenCreate(g) ==
    /\ gens[g].pc = "idle"
    /\ \E passed \in BOOLEAN, dims \in GenDimsArgs \cup {<<>>} :
           /\ passed <=> dims # <<>>
           /\ gens' = [gens EXCEPT ![g] = [pc |-> "created", obj |-> "DSD",
                                           passed |-> passed, dims |-> dims,
                                           out |-> <<>>]]
    /\ UNCHANGED <<obj, pre, call, ret, log, default_dims>>

\* next(g): the first resumption runs the content test, each one pulls the next
\* key of the delegate or ends the generator
GenNext(g) ==
    /\ gens[g].pc \in {"created", "running"}
    /\ LET gen == gens[g]
           body == ContentConstraint_iter_keys(obj, gen.obj, BoundDims(gen))
           n == Len(gen.out)
       IN  /\ log' = IF gen.pc = "created" THEN log \o body.log ELSE log
           /\ obj' = body.self
           /\ default_dims' = IF gen.passed THEN default_dims ELSE body.dims
           /\ gens' = [gens EXCEPT ![g] =
                         IF body.kind = "return" /\ n < Len(body.value)
                         THEN [gen EXCEPT !.pc = "running",
                                          !.out = Append(gen.out, body.value[n + 1])]
                         ELSE [gen EXCEPT !.pc = "done"]]
    /\ UNCHANGED <<pre, call, ret>>

NextGen == \E g \in GenIds : GenCreate(g) \/ GenNext(g)

SpecGen == InitGen /\ [][NextGen]_vars

(***************************************************************************)
(* Claims about membership and query strings (under Spec)                  *)
(***************************************************************************)
IsCC == obj.cls = "ContentConstraint"

FirstRegion == obj.data_content_region[1]

\* C1 (as claimed): a ContentConstraint whose data_content_keys is set answers
\* contains(key) with (some DataKey of the set has values equal to key) = included.
C1_KeySetDecides ==
    (call.op = "contains" /\ IsCC /\ pre.data_content_keys # None)
        => /\ ret.kind = "return"
           /\ ret.value = DataKeySet_contains(pre.data_content_keys[1], call.key)

\* C2 (as claimed): with a non-empty data_content_region, contains(key) equals
\* data_content_region[0].contains(key); later regions never change the result.
C2_FirstRegionOnly ==
    (call.op = "contains" /\ IsCC /\ pre.data_content_region # <<>>)
        => /\ ret.kind = "return"
           /\ ret.value = CubeRegion_contains(pre.data_content_region[1], call.key)

\* C2 (amended): with a non-empty data_content_region, contains(key) is true exactly
\* when no region of the list fails to contain key; it equals the first region's
\* answer when the list has one region or every later region contains key, and a
\* later region that does not contain key makes it false.
C2_AllRegions ==
    (call.op = "contains" /\ IsCC /\ pre.data_content_region # <<>>)
        => LET regions == pre.data_content_region
               first == CubeRegion_contains(regions[1], call.key)
               later == {i \in DOMAIN regions : i > 1}
               rejecting == {i \in later : ~CubeRegion_contains(regions[i], call.key)}
           IN  /\ ret.kind = "return"
               /\ ret.value \in BOOLEAN
               /\ rejecting = {} => ret.value = first
               /\ rejecting # {} => ret.value = FALSE

\* C2 witness: the first region contains the key, a later one does not.
C2_Witness ==
    /\ call.op = "contains" /\ IsCC /\ ret.kind = "return"
    /\ Len(obj.data_content_region) > 1
    /\ CubeRegion_contains(obj.data_content_region[1], call.key)
    /\ ~CubeRegion_contains(obj.data_content_region[2], call.key)

\* C3: contains(key) on a ContentConstraint with data_content_keys unset and no
\* region raises NotImplementedError, returns no boolean and leaves the object as
\* it was.
C3_NoPredicateRaises ==
    (call.op = "contains" /\ IsCC /\ pre.data_content_keys = None
        /\ pre.data_content_region = <<>>)
        => /\ ret.kind = "raise"
           /\ ret.value = "NotImplementedError"
           /\ obj = pre

C3_Witness ==
    /\ call.op = "contains" /\ IsCC /\ ret.kind = "raise"
    /\ obj.data_content_keys = None /\ obj.data_content_region = <<>>

\* C7: with at least one region, to_query_string(structure) returns the rendering
\* of the first CubeRegion, whatever the later regions are.
C7_RendersFirstRegion ==
    (call.op = "to_query_string" /\ pre.data_content_region # <<>>)
        => /\ ret.kind = "return"
           /\ ret.value = CubeRegion_to_query_string(pre.data_content_region[1], Dims)

\* C7 witness: a later region renders differently from the first.
C7_Witness ==
    /\ call.op = "to_query_string" /\ ret.kind = "return"
    /\ Len(obj.data_content_region) > 1
    /\ CubeRegion_to_query_string(obj.data_content_region[2], Dims)
           # CubeRegion_to_query_string(FirstRegion, Dims)

\* C8 (as claimed): contains(key) and to_query_string(structure) on more than one
\* region both emit the loss-of-information warning and return the first region's
\* result; on exactly one region neither warns.
C8_BothWarn ==
    /\ (call.op \in {"contains", "to_query_string"} /\ IsCC
            /\ Len(pre.data_content_region) > 1)
           => /\ log = MultiRegionWarning
              /\ ret.kind = "return"
              /\ ret.value =
                    IF call.op = "contains"
                    THEN CubeRegion_contains(pre.data_content_region[1], call.key)
                    ELSE CubeRegion_to_query_string(pre.data_content_region[1], Dims)
    /\ (call.op \in {"contains", "to_query_string"} /\ IsCC
            /\ Len(pre.data_content_region) = 1)
           => log = <<>>

\* C8 (amended): to_query_string(structure) on more than one region emits the
\* loss-of-information warning and still returns the first region's rendering; on
\* exactly one region it emits none. contains(key) never emits a warning, whatever
\* the number of regions, and with more than one region it returns a boolean that
\* is false as soon as any region does not contain key.
C8_OnlyQueryStringWarns ==
    /\ (call.op = "to_query_string" /\ Len(pre.data_content_region) > 1)
           => /\ log = MultiRegionWarning
              /\ ret.kind = "return"
              /\ ret.value = CubeRegion_to_query_string(pre.data_content_region[1], Dims)
    /\ (call.op = "to_query_string" /\ Len(pre.data_content_region) = 1)
           => log = <<>> /\ ret.kind = "return"
    /\ call.op = "contains" => log = <<>>
    /\ (call.op = "contains" /\ IsCC /\ Len(pre.data_content_region) > 1)
           => /\ ret.kind = "return"
              /\ (\E i \in DOMAIN pre.data_content_region :
                      ~CubeRegion_contains(pre.data_content_region[i], call.key))
                     => ret.value = FALSE

C8_Witness ==
    /\ call.op = "to_query_string" /\ ret.kind = "return"
    /\ Len(obj.data_content_region) > 1
    /\ log = MultiRegionWarning

\* C10: to_query_string(structure) on an empty data_content_region raises
\* RuntimeError (never IndexError, never a value), logs no multi-region warning
\* and leaves the object as it was.
C10_EmptyRegionRuntimeError ==
    (call.op = "to_query_string" /\ pre.data_content_region = <<>>)
        => /\ ret.kind = "raise"
           /\ ret.value = "RuntimeError"
           /\ log = <<>>
           /\ obj = pre

C10_Witness ==
    /\ call.op = "to_query_string" /\ ret.kind = "raise"
    /\ obj.data_content_region = <<>>

(***************************************************************************)
(* Claims about key iteration (under SpecIter and SpecGen)                 *)
(***************************************************************************)
KeysInOrder ==
    <<[A |-> "a1", B |-> "b1"], [A |-> "a1", B |-> "b2"],
      [A |-> "a2", B |-> "b1"], [A |-> "a2", B |-> "b2"]>>

\* Position of value v in the coded domain of dimension d.
DomainIndex(d, v) == CHOOSE i \in DOMAIN Domain[d] : Domain[d][i] = v

\* C4: without a constraint, iter_keys() yields the Cartesian product of the
\* dimensions' domains, each key exactly once, the first dimension varying slowest:
\* for {A:[a1,a2], B:[b1,b2]} the four keys a1b1, a1b2, a2b1, a2b2 in that order.
C4_CartesianProduct ==
    (call.op = "structure_iter_keys" /\ call.dims = <<>>)
        => /\ ret.kind = "return"
           /\ Range(ret.value) = Keys
           /\ Len(ret.value) = Cardinality(Keys)
           /\ \A i, j \in DOMAIN ret.value :
                  i < j => DomainIndex(Dims[1], ret.value[i][Dims[1]])
                               <= DomainIndex(Dims[1], ret.value[j][Dims[1]])
           /\ ret.value = KeysInOrder

C4_Witness ==
    /\ call.op = "structure_iter_keys" /\ call.dims = <<>>
    /\ ret.kind = "return" /\ Len(ret.value) = 4

\* The region {A: MemberSelection(values={a1}, included=true)}.
OnlyA1 == [member |-> [A |-> [values |-> {"a1"}, included |-> TRUE]]]

\* The keys the first region of the constructed constraint keeps.
KeptByFirstRegion ==
    {k \in Keys :
        \/ pre.data_content_region = <<>>
        \/ \A d \in DOMAIN pre.data_content_region[1].member :
               LET ms == pre.data_content_region[1].member[d]
               IN  IF ms.included THEN k[d] \in ms.values ELSE k[d] \notin ms.values}

\* C5: ContentConstraint.iter_keys(structure) yields exactly the keys of the
\* Cartesian product whose value, for every dimension with a MemberSelection in
\* the first region, is kept by that selection (listed when included, not listed
\* when excluded), in product order and once each; with the region
\* {A: values={a1}, included} it yields a1b1, a1b2.
C5_FirstRegionFilters ==
    (call.op = "iter_keys" /\ call.dims = <<>>)
        => LET Kept(k) == k \in KeptByFirstRegion
           IN  /\ ret.kind = "return"
               /\ ret.value = SelectSeq(KeysInOrder, Kept)
               /\ (pre.data_content_region # <<>> /\ pre.data_content_region[1] = OnlyA1)
                      => ret.value = <<[A |-> "a1", B |-> "b1"], [A |-> "a1", B |-> "b2"]>>

\* C5 witness: the first region is {A: {a1}}, a later region selects otherwise.
C5_Witness ==
    /\ call.op = "iter_keys" /\ call.dims = <<>> /\ ret.kind = "return"
    /\ Len(obj.data_content_region) > 1
    /\ obj.data_content_region[1] = OnlyA1
    /\ obj.data_content_region[2] # OnlyA1
    /\ Len(ret.value) = 2

\* C6: iter_keys(obj, dims) on an obj outside content logs a warning and proceeds:
\* no error, and the same keys as when obj is in content, those of
\* obj.iter_keys(constraint=self, dims=dims); with obj in content nothing is logged.
C6_NotInContentWarns ==
    call.op = "iter_keys"
        => LET associated == [pre EXCEPT !.content = @ \cup {call.obj}]
           IN  /\ ret.kind = "return"
               /\ ret.value = DataStructureDefinition_iter_keys(Some(pre), call.dims)
               /\ ret.value = ContentConstraint_iter_keys(associated, call.obj,
                                                          call.dims).value
               /\ call.obj \notin pre.content => log = NotInContentWarning
               /\ call.obj \in pre.content => log = <<>>

C6_Witness ==
    /\ call.op = "iter_keys" /\ call.passed /\ call.dims # <<>>
    /\ call.obj \notin obj.content /\ obj.content # {}
    /\ ret.kind = "return" /\ ret.value # <<>>
    /\ log = NotInContentWarning

\* What generator gen yields when it runs alone on the constraint as constructed.
Alone(gen) ==
    ContentConstraint_iter_keys(pre, gen.obj, IF gen.passed THEN gen.dims ELSE <<>>).value

\* C9: however two iter_keys generators over the same structure and constraint
\* are interleaved, with or without the default dims, each has yielded a prefix of
\* the sequence it yields alone and the whole of it once exhausted; role,
\* data_content_keys, data_content_region and content stay as constructed, and so
\* does the default dims list.
C9_IndependentIterations ==
    /\ obj = pre
    /\ default_dims = <<>>
    /\ \A g \in DOMAIN gens :
           gens[g].pc # "idle"
               => /\ Len(gens[g].out) <= Len(Alone(gens[g]))
                  /\ gens[g].out = SubSeq(Alone(gens[g]), 1, Len(gens[g].out))
                  /\ gens[g].pc = "done" => gens[g].out = Alone(gens[g])

\* C9 witness: both generators are part-way through, each with keys yielded and
\* keys still to come, one on the default dims and one on dims of its own.
C9_Witness ==
    /\ \A g \in GenIds :
           /\ gens[g].pc = "running"
           /\ Len(gens[g].out) >= 1
           /\ Len(gens[g].out) < Len(Alone(gens[g]))
    /\ ~gens["g1"].passed /\ gens["g2"].passed
    /\ log = NotInContentWarning \o NotInContentWarning

====
